---- MODULE Spec2Model ----
(***************************************************************************)
(* Model of the aionyphe request/response engine:                          *)
(*   - the per-feature concurrency gate (OnypheAPIClientRateLimiting),     *)
(*   - one API call as a chain of asynchronous generators                  *)
(*     (OnypheAPIClient.<op> -> __get/__post -> _handle_resp -> decoder),  *)
(*   - the page walker (helper.iter_pages).                                *)
(* asyncio runs one task at a time, so every action below is one run of a  *)
(* task between two suspension points.                                     *)
(***************************************************************************)
EXTENDS Integers, Sequences, FiniteSets, TLC

\* ------------------------------------------------------------------ bounds
NCalls == 2          \* calls started by independent consumers on one client
MaxLimit == 1        \* largest configured concurrency limit explored
MaxRecs == 1         \* largest number of records in one response
MaxPage == 3         \* largest page number / max_page value explored
MaxItems == 3        \* largest number of records or lines in one decoded body

\* --------------------------------------------------------------- constants
None == -1           \* Python None where a number is expected
NoMeta == -2         \* no pair handed out (nothing decoded, or frame gone)
Absent == 0          \* metadata dict without a max_page key

Calls == 1..NCalls

\* call slots of the page walker: its i-th page request is call PageSlot(i)
PageSlot(i) == NCalls + i
PageCalls == (NCalls + 1)..(NCalls + MaxPage)

\* the members of OnypheFeature the model follows: search (paginated,
\* enveloped JSON, no default limit), export (NDJSON, default limit 1) and
\* three operations that validate their arguments (simple_best, enveloped
\* JSON; bulk_summary and bulk_simple_best_ip, NDJSON) and alert_add (error
\* envelope)
Kinds == {"search", "export", "simple_best", "bulk_summary",
          "bulk_simple_best_ip", "alert_add"}

\* the operations started by the consumers of the gate specification
UserKinds == {"search", "export"}

\* the operations that validate their arguments before anything else
ValidatedKinds == {"simple_best", "bulk_summary", "bulk_simple_best_ip"}

DEFAULT_RATE_LIMITS == [k \in Kinds |-> IF k = "export" THEN 1 ELSE None]

\* statuses the server may answer with: success, the two statuses with a
\* check of their own, and the lowest status of the `>= 300` check
Statuses == {200, 300, 400, 429}

\* rate_limits overrides given to OnypheAPIClientRateLimiting: none, or one
\* feature set to a positive limit
Overrides == {<<>>} \cup {[k \in {f} |-> n] : f \in {"search", "export"}, n \in 1..MaxLimit}

\* the configurations explored: rate limiting disabled, or enabled with one
\* of the overrides
Configs == {[enabled |-> FALSE, rate_limits |-> <<>>]}
           \cup {[enabled |-> TRUE, rate_limits |-> o] : o \in Overrides}

VARIABLES
    enabled,       \* OnypheAPIClientRateLimiting.enabled
    rate_limits,   \* OnypheAPIClientRateLimiting.rate_limits (override map)
    has_semaphores, \* hasattr(self, '__semaphores')
    semaphores,    \* the memoized '__semaphores' attribute (meaningful once set)
    calls,         \* one record per call slot
    walk,          \* the iter_pages generator
    dec            \* one _handle_resp generator run on a concrete response

vars == <<enabled, rate_limits, has_semaphores, semaphores, calls, walk, dec>>

\* ---------------------------------------------------------------- the gate

\* _SemaphoreStub(): __aenter__ and __aexit__ do nothing
SemaphoreStub == [stub |-> TRUE, value |-> 0, waiters |-> <<>>]

\* asyncio.Semaphore(n)
Semaphore(n) == [stub |-> FALSE, value |-> n, waiters |-> <<>>]

\* variant: the enabled test inverted, every gate of an enabled client is a stub
BuildSemaphores_Inverted(en, overrides) ==
    LET limits == [k \in Kinds |->
                     IF k \in DOMAIN overrides THEN overrides[k]
                     ELSE DEFAULT_RATE_LIMITS[k]]
    IN [k \in Kinds |->
          IF en THEN SemaphoreStub
          ELSE IF limits[k] = None THEN SemaphoreStub
          ELSE Semaphore(limits[k])]

\* body of the semaphores property when the attribute is missing
BuildSemaphores(en, overrides) ==
    LET limits == [k \in Kinds |->
                     IF k \in DOMAIN overrides THEN overrides[k]
                     ELSE DEFAULT_RATE_LIMITS[k]]
    IN [k \in Kinds |->
          IF ~en THEN SemaphoreStub
          ELSE IF limits[k] = None THEN SemaphoreStub
          ELSE Semaphore(limits[k])]

\* variant: the map is computed at every access
semaphores_get_Rebuild == BuildSemaphores(enabled, rate_limits)

\* the semaphores property: computed on first access, then memoized
semaphores_get ==
    IF ~has_semaphores THEN BuildSemaphores(enabled, rate_limits)
    ELSE semaphores

\* variant: every feature is sent to the export gate
semaphore_of_Shared(feature) == "export"

\* OnypheAPIClient.__semaphore(feature): key of the gate a call of that
\* feature enters
semaphore_of(feature) == feature

\* the limit a feature ends up with (None: unlimited)
LimitOf(k) ==
    IF ~enabled THEN None
    ELSE IF k \in DOMAIN rate_limits THEN rate_limits[k]
    ELSE DEFAULT_RATE_LIMITS[k]

\* Semaphore.locked(): no permit left, or somebody is already waiting
Locked(s) == s.value = 0 \/ Len(s.waiters) > 0

\* __aexit__ of the gate: the stub does nothing, the semaphore gives the
\* permit back
Release(ss, g) ==
    IF ss[g].stub THEN ss ELSE [ss EXCEPT ![g].value = @ + 1]

\* a waiter whose acquire() is cancelled leaves the queue of the semaphore
RemoveWaiter(seq, c) == SelectSeq(seq, LAMBDA x : x # c)

\* ------------------------------------------------------------------- calls

\* arguments of an operation that takes none of category, filepath, data
NoArgs == [category |-> "none", filepath |-> "none", data |-> "none"]

IdleCall == [pc |-> "idle", kind |-> "none", sem |-> "none", owner |-> "none",
             page |-> 0, holds |-> FALSE, resp |-> "none", status |-> 0,
             bodyRead |-> FALSE, nyield |-> 0, remaining |-> 0,
             meta |-> NoMeta, result |-> "none", cancelAt |-> "none",
             args |-> NoArgs]

\* decoder bound to each operation
Decoder(k) ==
    IF k \in {"search", "simple_best"} THEN "json"
    ELSE IF k = "alert_add" THEN "error"
    ELSE "ndjson"

\* state of the walker before iter_pages is called
IdleWalk == [pc |-> "idle", afunc |-> "search", takes_page |-> TRUE,
             first |-> 1, bound |-> None, current |-> 0,
             last |-> None, slot |-> PageSlot(1), out |-> <<>>,
             result |-> "none"]

\* no exception raised
NoExc == [type |-> "none", message |-> ""]

\* state of the response handler before _handle_resp is called
IdleDec == [pc |-> "idle", decoder |-> "none", status |-> 0, ctype |-> "none",
            body |-> <<>>, bodyRead |-> FALSE, pos |-> 0, out |-> <<>>,
            raised |-> NoExc, log |-> <<>>]

\* the page walker is between a page call's step and its own reaction to it:
\* no other task runs in between
WalkBusy ==
    /\ walk.pc = "pulling"
    /\ calls[walk.slot].pc \in {"yielded", "done"}

\* `async with self.__semaphore(feature)`, first half: the permit is taken at
\* once when the gate is a stub or is not locked, else the call waits
StartAt(c, k, g, pg, own) ==
    /\ calls[c].pc = "idle"
    /\ LET ss == semaphores_get
           base == [IdleCall EXCEPT !.kind = k, !.sem = g, !.owner = own, !.page = pg]
       IN IF ss[g].stub \/ ~Locked(ss[g])
          THEN /\ calls' = [calls EXCEPT ![c] =
                     [base EXCEPT !.pc = "send", !.holds = TRUE, !.resp = "pending"]]
               /\ semaphores' = IF ss[g].stub THEN ss
                                ELSE [ss EXCEPT ![g].value = @ - 1]
          ELSE /\ calls' = [calls EXCEPT ![c] = [base EXCEPT !.pc = "gate"]]
               /\ semaphores' = [ss EXCEPT ![g].waiters = Append(@, c)]
    /\ has_semaphores' = TRUE

\* a call of feature k enters the gate self.__semaphore(k) of its client
Start(c, k, pg, own) == StartAt(c, k, semaphore_of(k), pg, own)

\* a waiter at the head of the queue is woken once a permit is free; the
\* request is issued right away (client.get/post, `async with response`)
Admit(c) ==
    /\ ~WalkBusy
    /\ calls[c].pc = "gate"
    /\ LET g == calls[c].sem
       IN /\ semaphores[g].value > 0
          /\ Head(semaphores[g].waiters) = c
          /\ semaphores' = [semaphores EXCEPT ![g].value = @ - 1,
                                              ![g].waiters = Tail(@)]
    /\ calls' = [calls EXCEPT ![c] =
                   [@ EXCEPT !.pc = "send", !.holds = TRUE, !.resp = "pending"]]
    /\ UNCHANGED <<dec, enabled, rate_limits, has_semaphores, walk>>

\* variant: the chain ends without leaving `async with semaphore`
Finish_Leak(c, fr, res, rs) ==
    /\ calls' = [calls EXCEPT ![c] =
                   [fr EXCEPT !.pc = "done", !.resp = rs,
                              !.result = res, !.remaining = 0, !.meta = NoMeta]]
    /\ UNCHANGED semaphores

\* the generator chain of call c ends (normally or by an exception that
\* unwinds it) from frame state fr: `async with response` has left with the
\* response in state rs, then `async with semaphore` gives the permit back
Finish(c, fr, res, rs) ==
    /\ calls' = [calls EXCEPT ![c] =
                   [fr EXCEPT !.pc = "done", !.holds = FALSE, !.resp = rs,
                              !.result = res, !.remaining = 0, !.meta = NoMeta]]
    /\ semaphores' = Release(semaphores, calls[c].sem)

\* variant: the >= 300 check placed first
handle_resp_status_Reordered(status) ==
    IF status >= 300 THEN "UnexpectedStatus"
    ELSE IF status = 429 THEN "RateLimited"
    ELSE IF status = 400 THEN "BadRequest"
    ELSE "ok"

\* _handle_resp, the status checks in their order
handle_resp_status(status) ==
    IF status = 429 THEN "RateLimited"
    ELSE IF status = 400 THEN "BadRequest"
    ELSE IF status >= 300 THEN "UnexpectedStatus"
    ELSE "ok"

\* _handle_resp reads the body before raising only for a 400
\* (_get_error_text)
ErrorBodyRead(verdict) == verdict = "BadRequest"

\* the response headers arrive (or the transport fails) and _handle_resp
\* classifies the status
Respond(c) ==
    /\ ~WalkBusy
    /\ calls[c].pc = "send"
    /\ \/ \E failure \in {"ProxyUnreachable", "TransportError"} :
             Finish(c, calls[c], failure, "aborted")
       \/ \E s \in Statuses :
             LET verdict == handle_resp_status(s)
             IN IF verdict = "ok"
                THEN /\ calls' = [calls EXCEPT ![c] =
                            [@ EXCEPT !.pc = "read", !.resp = "open", !.status = s]]
                     /\ UNCHANGED semaphores
                ELSE Finish(c, [calls[c] EXCEPT !.status = s,
                                                !.bodyRead = ErrorBodyRead(verdict)],
                            verdict, "closed")
    /\ UNCHANGED <<dec, enabled, rate_limits, has_semaphores, walk>>

\* values the envelope's max_page may take (Absent: no such field)
MaxPageValues == (1..MaxPage) \cup {Absent}

\* max_page is read by iter_pages only: the envelopes served to a call that
\* is consumed directly are explored without the field
EnvelopeMaxPages(own) == IF own = "walker" THEN MaxPageValues ELSE {Absent}

\* _parse_json_resp: the whole body is read and parsed, then the first
\* record, if any, is yielded
parse_json_resp(c) ==
    LET fr == [calls[c] EXCEPT !.bodyRead = TRUE]
    IN \/ Finish(c, fr, "DecodeError", "closed")
       \/ \E n \in 0..MaxRecs, mp \in EnvelopeMaxPages(calls[c].owner) :
             IF n = 0
             THEN Finish(c, fr, "exhausted", "closed")
             ELSE /\ calls' = [calls EXCEPT ![c] =
                         [fr EXCEPT !.pc = "yielded", !.nyield = 1,
                                    !.remaining = n - 1, !.meta = mp]]
                  /\ UNCHANGED semaphores

\* _parse_json_error: the whole body is read and parsed, then yielded as
\* the only record, with None for metadata
parse_json_error(c) ==
    LET fr == [calls[c] EXCEPT !.bodyRead = TRUE]
    IN \/ Finish(c, fr, "DecodeError", "closed")
       \/ /\ calls' = [calls EXCEPT ![c] =
                 [fr EXCEPT !.pc = "yielded", !.nyield = 1,
                            !.remaining = 0, !.meta = None]]
          /\ UNCHANGED semaphores

\* _parse_ndjson_resp: one readline(); an empty read ends the stream, a
\* line is parsed and yielded, a malformed line raises
parse_ndjson_resp(c) ==
    LET fr == [calls[c] EXCEPT !.bodyRead = TRUE]
    IN \/ Finish(c, fr, "exhausted", "closed")
       \/ Finish(c, fr, "DecodeError", "closed")
       \/ /\ calls[c].nyield < MaxRecs
          /\ calls' = [calls EXCEPT ![c] =
                 [fr EXCEPT !.pc = "yielded", !.nyield = @ + 1, !.meta = None]]
          /\ UNCHANGED semaphores

\* the awaited body read of call c completes
ReadBody(c) ==
    /\ ~WalkBusy
    /\ calls[c].pc = "read"
    /\ CASE Decoder(calls[c].kind) = "json" -> parse_json_resp(c)
         [] Decoder(calls[c].kind) = "error" -> parse_json_error(c)
         [] OTHER -> parse_ndjson_resp(c)
    /\ UNCHANGED <<dec, enabled, rate_limits, has_semaphores, walk>>

\* the consumer asks a suspended call for its next item: the enveloped
\* decoder goes on with its list, the NDJSON decoder awaits the next line
NextRec(c) ==
    /\ calls[c].pc = "yielded"
    /\ IF Decoder(calls[c].kind) \in {"json", "error"}
       THEN IF calls[c].remaining > 0
            THEN /\ calls' = [calls EXCEPT ![c] =
                        [@ EXCEPT !.nyield = @ + 1, !.remaining = @ - 1]]
                 /\ UNCHANGED semaphores
            ELSE Finish(c, calls[c], "exhausted", "closed")
       ELSE /\ calls' = [calls EXCEPT ![c] = [@ EXCEPT !.pc = "read"]]
            /\ UNCHANGED semaphores

\* the consumer closes the result sequence (aclose()) while it is suspended
\* at a yield: GeneratorExit is raised in the operation's generator only;
\* its `async with semaphore` gives the permit back, the generators below
\* (__get, _handle_resp, the decoder) are dropped and finalized later
Close(c) ==
    /\ calls[c].pc = "yielded"
    /\ calls' = [calls EXCEPT ![c] =
           [@ EXCEPT !.pc = "closing", !.holds = FALSE, !.result = "closed",
                     !.remaining = 0, !.meta = NoMeta]]
    /\ semaphores' = Release(semaphores, calls[c].sem)

\* the consumer's task is cancelled while the sequence is suspended at a
\* yield (between two records): CancelledError is raised in the consumer, the
\* operation's generator is only dropped and its finalizer is scheduled on
\* the event loop
Abandon(c) ==
    /\ calls[c].pc = "yielded"
    /\ calls' = [calls EXCEPT ![c] =
           [@ EXCEPT !.pc = "abandoned", !.remaining = 0, !.meta = NoMeta,
                     !.result = "cancelled", !.cancelAt = "yielded"]]
    /\ UNCHANGED semaphores

\* the scheduled aclose() of a dropped operation generator runs
FinalizeOuter(c) ==
    /\ ~WalkBusy
    /\ calls[c].pc = "abandoned"
    /\ calls' = [calls EXCEPT ![c] = [@ EXCEPT !.pc = "closing", !.holds = FALSE]]
    /\ semaphores' = Release(semaphores, calls[c].sem)
    /\ UNCHANGED <<dec, enabled, rate_limits, has_semaphores, walk>>

\* the scheduled aclose() of the dropped inner generators runs:
\* _handle_resp leaves `async with response`
FinalizeInner(c) ==
    /\ ~WalkBusy
    /\ calls[c].pc = "closing"
    /\ calls' = [calls EXCEPT ![c] =
           [@ EXCEPT !.pc = "done", !.resp = "closed",
                     !.remaining = 0, !.meta = NoMeta]]
    /\ UNCHANGED <<dec, enabled, rate_limits, has_semaphores, semaphores, walk>>

\* variant: a cancellation during a body read unwinds the decoder only
Cancel_NoUnwind(c) ==
    /\ calls[c].pc \in {"gate", "send", "read"}
    /\ LET fr == [calls[c] EXCEPT !.cancelAt = calls[c].pc]
       IN CASE calls[c].pc = "gate" ->
                 /\ calls' = [calls EXCEPT ![c] =
                        [fr EXCEPT !.pc = "done", !.result = "cancelled"]]
                 /\ semaphores' = [semaphores EXCEPT ![calls[c].sem].waiters =
                                      RemoveWaiter(@, c)]
            [] calls[c].pc = "send" -> Finish(c, fr, "cancelled", "aborted")
            [] calls[c].pc = "read" ->
                 /\ calls' = [calls EXCEPT ![c] =
                        [fr EXCEPT !.pc = "done", !.result = "cancelled"]]
                 /\ UNCHANGED semaphores

\* the task awaiting the sequence is cancelled while the call is suspended
\* inside it: CancelledError unwinds the whole chain
Cancel(c) ==
    /\ calls[c].pc \in {"gate", "send", "read"}
    /\ LET fr == [calls[c] EXCEPT !.cancelAt = calls[c].pc]
       IN CASE calls[c].pc = "gate" ->
                 /\ calls' = [calls EXCEPT ![c] =
                        [fr EXCEPT !.pc = "done", !.result = "cancelled"]]
                 /\ semaphores' = [semaphores EXCEPT ![calls[c].sem].waiters =
                                      RemoveWaiter(@, c)]
            [] calls[c].pc = "send" -> Finish(c, fr, "cancelled", "aborted")
            [] calls[c].pc = "read" -> Finish(c, fr, "cancelled", "closed")

\* ------------------------------------------------------- consumers of calls

\* a consumer starts a call; a new generator object takes the lowest free
\* call slot
UserStart(c) ==
    /\ ~WalkBusy
    /\ \A c2 \in Calls : c2 < c => calls[c2].pc # "idle"
    /\ \E k \in UserKinds : Start(c, k, 1, "user")
    /\ UNCHANGED <<dec, enabled, rate_limits, walk>>

UserNext(c) ==
    /\ ~WalkBusy
    /\ calls[c].owner = "user"
    /\ NextRec(c)
    /\ UNCHANGED <<dec, enabled, rate_limits, has_semaphores, walk>>

UserClose(c) ==
    /\ ~WalkBusy
    /\ calls[c].owner = "user"
    /\ Close(c)
    /\ UNCHANGED <<dec, enabled, rate_limits, has_semaphores, walk>>

UserAbandon(c) ==
    /\ ~WalkBusy
    /\ calls[c].owner = "user"
    /\ Abandon(c)
    /\ UNCHANGED <<dec, enabled, rate_limits, has_semaphores, walk>>

UserCancel(c) ==
    /\ ~WalkBusy
    /\ calls[c].owner = "user"
    /\ Cancel(c)
    /\ UNCHANGED <<dec, enabled, rate_limits, has_semaphores, walk>>

\* ------------------------------------------------------------ specification

Init ==
    /\ \E cfg \in Configs : enabled = cfg.enabled /\ rate_limits = cfg.rate_limits
    /\ has_semaphores = FALSE
    /\ semaphores = [k \in Kinds |-> SemaphoreStub]
    /\ calls = [c \in Calls \cup PageCalls |-> IdleCall]
    /\ walk = IdleWalk
    /\ dec = IdleDec

Next ==
    \E c \in Calls :
       \/ UserStart(c)
       \/ Admit(c)
       \/ Respond(c)
       \/ ReadBody(c)
       \/ UserNext(c)
       \/ UserClose(c)
       \/ UserAbandon(c)
       \/ FinalizeOuter(c)
       \/ FinalizeInner(c)
       \/ UserCancel(c)

Spec == Init /\ [][Next]_vars

\* the event loop runs every task that is ready: a woken waiter takes its
\* permit, the server answers, the body is read and a dropped sequence is
\* finalized
ClientFairness ==
    \A c \in Calls :
       /\ WF_vars(Admit(c))
       /\ WF_vars(Respond(c))
       /\ WF_vars(ReadBody(c))
       /\ WF_vars(FinalizeOuter(c))
       /\ WF_vars(FinalizeInner(c))

\* besides, the consumer of a call goes on asking for the next record or
\* closes the sequence
Fairness ==
    /\ ClientFairness
    /\ \A c \in Calls : WF_vars(UserNext(c) \/ UserClose(c))

\* every holder of a permit eventually ends its result sequence
SpecFair == Init /\ [][Next]_vars /\ Fairness

\* the client and the event loop do their part, the consumers of the calls
\* may stop asking
SpecStall == Init /\ [][Next]_vars /\ ClientFairness

\* --------------------------------------------- a consumer that nests calls

\* one task iterates the records of call Outer and, between two of them,
\* starts a call Inner of the same kind and iterates it
Outer == 1

Inner == 2

\* the call of another task, which shares the client
Other == PageSlot(1)

Tasks == {Outer, Inner, Other}

\* the nesting task was cancelled while it was suspended in a call
Interrupted == \E c \in {Outer, Inner} : calls[c].cancelAt # "none"

\* the call a task may ask for a record or close: for the nesting task the
\* inner one while it lasts, the outer one otherwise
MayPull(c) ==
    \/ c = Other
    \/ c = Inner /\ ~Interrupted
    \/ c = Outer /\ ~Interrupted /\ calls[Inner].pc \in {"idle", "closing", "done"}

NestedStart ==
    /\ \E k \in UserKinds : Start(Outer, k, 1, "user")
    /\ UNCHANGED <<dec, enabled, rate_limits, walk>>

\* `async for ... in client.export(...)` inside the body of the loop over
\* the outer call
NestedInner ==
    /\ ~Interrupted
    /\ calls[Outer].pc = "yielded"
    /\ Start(Inner, calls[Outer].kind, 1, "user")
    /\ UNCHANGED <<dec, enabled, rate_limits, walk>>

OtherStart ==
    /\ \E k \in UserKinds : Start(Other, k, 1, "user")
    /\ UNCHANGED <<dec, enabled, rate_limits, walk>>

NestedNext(c) == MayPull(c) /\ UserNext(c)

NestedClose(c) == MayPull(c) /\ UserClose(c)

\* the nesting task is cancelled from outside while it is suspended in call c
NestedCancel(c) ==
    /\ c \in {Outer, Inner}
    /\ ~Interrupted
    /\ c = Outer => calls[Inner].pc = "idle"
    /\ UserCancel(c)

\* CancelledError leaves the body of the outer loop: the outer sequence,
\* suspended at its yield, is dropped
NestedDrop ==
    /\ calls[Inner].cancelAt # "none"
    /\ UserAbandon(Outer)

NextNested ==
    \/ NestedStart
    \/ NestedInner
    \/ OtherStart
    \/ NestedDrop
    \/ \E c \in Tasks :
          \/ Admit(c)
          \/ Respond(c)
          \/ ReadBody(c)
          \/ NestedNext(c)
          \/ NestedClose(c)
          \/ NestedCancel(c)
          \/ FinalizeOuter(c)
          \/ FinalizeInner(c)

SpecNested == Init /\ [][NextNested]_vars

\* ------------------------------------------- two clients on one HTTP session

\* a second OnypheAPIClient built on the same ClientSession with default
\* rate limiting: default_factory gives it a rate limiting object, hence a
\* gate map, of its own. Its gates are kept in the same map under keys of
\* their own
PeerGate(k) == k \o "'"

PeerGates == {PeerGate(k) : k \in Kinds}

PeerKind(g) == CHOOSE k \in Kinds : PeerGate(k) = g

\* a consumer starts a call on the first or on the second client
ClientStart(c) ==
    /\ \A c2 \in Calls : c2 < c => calls[c2].pc # "idle"
    /\ \E k \in UserKinds :
          \/ Start(c, k, 1, "user")
          \/ StartAt(c, k, PeerGate(k), 1, "user")
    /\ UNCHANGED <<dec, enabled, rate_limits, walk>>

\* both clients are built with the defaults and each has looked up its gate
\* map once
InitClients ==
    /\ enabled = TRUE
    /\ rate_limits = <<>>
    /\ has_semaphores = TRUE
    /\ semaphores = [g \in Kinds \cup PeerGates |->
                        IF g \in Kinds THEN BuildSemaphores(TRUE, <<>>)[g]
                        ELSE BuildSemaphores(TRUE, <<>>)[PeerKind(g)]]
    /\ calls = [c \in Calls \cup PageCalls |-> IdleCall]
    /\ walk = IdleWalk
    /\ dec = IdleDec

NextClients ==
    \E c \in Calls :
       \/ ClientStart(c)
       \/ Admit(c)
       \/ Respond(c)
       \/ ReadBody(c)
       \/ UserNext(c)
       \/ UserClose(c)
       \/ UserAbandon(c)
       \/ FinalizeOuter(c)
       \/ FinalizeInner(c)
       \/ UserCancel(c)

SpecClients == InitClients /\ [][NextClients]_vars

\* ---------------------------------------------------------- the page walker

Min(a, b) == IF a <= b THEN a ELSE b

\* meta.get('max_page', 1)
max_page_of(meta) == IF meta = Absent THEN 1 ELSE meta

\* variant: the larger of the two bounds is kept
merge_last_Max(last, meta) ==
    IF last # None /\ last # 0
    THEN (IF last >= max_page_of(meta) THEN last ELSE max_page_of(meta))
    ELSE max_page_of(meta)

\* iter_pages, "ensure last page is consistent": `if last:` is false for
\* None and for 0
merge_last(last, meta) ==
    IF last # None /\ last # 0
    THEN Min(last, max_page_of(meta))
    ELSE max_page_of(meta)

\* iter_pages, "last page reached ?": comparing an int with None raises
end_of_page(current, last) ==
    IF last = None THEN "TypeError"
    ELSE IF current >= last THEN "break"
    ELSE "next"

\* first __anext__ on iter_pages(afunc, args, first, last): current = first
\* and the first page is requested with afunc(*args, page=current); an
\* operation without a page parameter raises TypeError at the call
WalkStart ==
    /\ walk.pc = "created"
    /\ IF walk.takes_page
       THEN /\ Start(PageSlot(1), walk.afunc, walk.first, "walker")
            /\ walk' = [walk EXCEPT !.pc = "pulling", !.current = walk.first,
                                    !.last = walk.bound, !.slot = PageSlot(1)]
       ELSE /\ walk' = [walk EXCEPT !.pc = "done", !.current = walk.first,
                                    !.last = walk.bound, !.slot = PageSlot(0),
                                    !.result = "TypeError: page"]
            /\ UNCHANGED <<has_semaphores, semaphores, calls>>
    /\ UNCHANGED <<dec, enabled, rate_limits>>

\* the page call has yielded (meta, result): last is merged with the
\* reported max_page and the pair is yielded to the consumer; when meta is
\* None, meta.get raises AttributeError, which leaves iter_pages, and the
\* page call, suspended at its yield, is dropped
WalkObserve ==
    /\ walk.pc = "pulling"
    /\ calls[walk.slot].pc = "yielded"
    /\ IF calls[walk.slot].meta = None
       THEN /\ walk' = [walk EXCEPT !.pc = "done", !.result = "AttributeError"]
            /\ calls' = [calls EXCEPT ![walk.slot] =
                   [@ EXCEPT !.pc = "abandoned", !.remaining = 0,
                             !.meta = NoMeta, !.result = "closed"]]
       ELSE /\ walk' = [walk EXCEPT
                          !.pc = "yielded",
                          !.last = merge_last(walk.last, calls[walk.slot].meta),
                          !.out = Append(@, <<calls[walk.slot].page,
                                              calls[walk.slot].nyield,
                                              calls[walk.slot].meta>>)]
            /\ UNCHANGED calls
    /\ UNCHANGED <<dec, enabled, rate_limits, has_semaphores, semaphores>>

\* the consumer asks the walker for the next pair: the walker asks the page
\* call
WalkNext ==
    /\ walk.pc = "yielded"
    /\ NextRec(walk.slot)
    /\ walk' = [walk EXCEPT !.pc = "pulling"]
    /\ UNCHANGED <<dec, enabled, rate_limits, has_semaphores>>

\* the page call is exhausted: stop, or request the next page
WalkPageEnd ==
    /\ walk.pc = "pulling"
    /\ calls[walk.slot].pc = "done"
    /\ calls[walk.slot].result = "exhausted"
    /\ LET verdict == end_of_page(walk.current, walk.last)
       IN IF verdict = "next"
          THEN /\ walk.slot + 1 \in PageCalls
               /\ Start(walk.slot + 1, walk.afunc, walk.current + 1, "walker")
               /\ walk' = [walk EXCEPT !.current = @ + 1, !.slot = @ + 1]
          ELSE /\ walk' = [walk EXCEPT
                             !.pc = "done",
                             !.result = IF verdict = "break" THEN "exhausted"
                                        ELSE "TypeError"]
               /\ UNCHANGED <<has_semaphores, semaphores, calls>>
    /\ UNCHANGED <<dec, enabled, rate_limits>>

\* variant: the walker takes a failed page for an empty one and stops
WalkError_Swallow ==
    /\ walk.pc = "pulling"
    /\ calls[walk.slot].pc = "done"
    /\ calls[walk.slot].result # "exhausted"
    /\ walk' = [walk EXCEPT !.pc = "done", !.result = "exhausted"]
    /\ UNCHANGED <<dec, enabled, rate_limits, has_semaphores, semaphores, calls>>

\* the page call ended with an error: it leaves iter_pages unhandled
WalkError ==
    /\ walk.pc = "pulling"
    /\ calls[walk.slot].pc = "done"
    /\ calls[walk.slot].result # "exhausted"
    /\ walk' = [walk EXCEPT !.pc = "done", !.result = calls[walk.slot].result]
    /\ UNCHANGED <<dec, enabled, rate_limits, has_semaphores, semaphores, calls>>

\* a direct search call competing with the walker for the search gate
Competitors == {1}

CompetitorStart(c) ==
    /\ ~WalkBusy
    /\ Start(c, "search", 1, "user")
    /\ UNCHANGED <<dec, enabled, rate_limits, walk>>

\* first pages and caller bounds given to iter_pages
Firsts == 1..MaxPage
CallerBounds == {None} \cup (0..MaxPage)

\* the walker runs on a client whose search gate has a limit
InitWalk ==
    /\ enabled = TRUE
    /\ \E n \in 1..MaxLimit : rate_limits = [k \in {"search"} |-> n]
    /\ has_semaphores = FALSE
    /\ semaphores = [k \in Kinds |-> SemaphoreStub]
    /\ calls = [c \in Calls \cup PageCalls |-> IdleCall]
    /\ \E f \in Firsts, b \in CallerBounds :
          walk = [IdleWalk EXCEPT !.pc = "created", !.first = f, !.bound = b]
    /\ dec = IdleDec

NextWalk ==
    \/ WalkStart
    \/ WalkObserve
    \/ WalkNext
    \/ WalkPageEnd
    \/ WalkError
    \/ \E c \in DOMAIN calls :
          \/ Admit(c)
          \/ Respond(c)
          \/ ReadBody(c)
    \/ \E c \in Competitors :
          \/ CompetitorStart(c)
          \/ UserNext(c)

SpecWalk == InitWalk /\ [][NextWalk]_vars

\* the operations handed to iter_pages: search, alert_add as it is (it has
\* no page parameter) and alert_add behind a callable that accepts page
WalkOps ==
    {[afunc |-> "search", takes_page |-> TRUE],
     [afunc |-> "alert_add", takes_page |-> FALSE],
     [afunc |-> "alert_add", takes_page |-> TRUE]}

\* the walker runs alone on a default client
InitWalkAny ==
    /\ enabled = TRUE
    /\ rate_limits = <<>>
    /\ has_semaphores = FALSE
    /\ semaphores = [k \in Kinds |-> SemaphoreStub]
    /\ calls = [c \in Calls \cup PageCalls |-> IdleCall]
    /\ \E op \in WalkOps, f \in Firsts, b \in CallerBounds :
          walk = [IdleWalk EXCEPT !.pc = "created", !.afunc = op.afunc,
                                  !.takes_page = op.takes_page,
                                  !.first = f, !.bound = b]
    /\ dec = IdleDec

\* the page calls follow one another and none of them waits at a gate
NextWalkAny ==
    \/ WalkStart
    \/ WalkObserve
    \/ WalkNext
    \/ WalkPageEnd
    \/ WalkError
    \/ \E c \in PageCalls :
          \/ Respond(c)
          \/ ReadBody(c)
          \/ FinalizeOuter(c)
          \/ FinalizeInner(c)

SpecWalkAny == InitWalkAny /\ [][NextWalkAny]_vars

\* ------------------------------------------------ validation of arguments

\* members of OnypheCategory: two of the allow-list and one outside
Categories == {"whois", "threatlist", "datascan"}

\* variant: every category is accepted
BEST_CATEGORIES_Any == {"whois", "geoloc", "inetnum", "threatlist", "datascan"}

BEST_CATEGORIES == {"whois", "geoloc", "inetnum", "threatlist"}

\* filepath: not given, a regular file, or a path that is not one
FilePaths == {"none", "file", "missing"}

\* data: not given, b'' or some bytes
DataValues == {"none", "empty", "bytes"}

\* _select_data(filepath, data): `if data` is false for None and for b''
select_data(filepath, data) ==
    IF data = "bytes" THEN "ok"
    ELSE IF filepath # "none"
    THEN (IF filepath = "file" THEN "ok" ELSE "ValueError")
    ELSE "ValueError"

\* the checks an operation makes before `async with self.__semaphore(...)`:
\* the category against BEST_CATEGORIES, then _select_data
validate(k, args) ==
    IF k \in {"simple_best", "bulk_simple_best_ip"}
       /\ args.category \notin BEST_CATEGORIES
    THEN "ValueError"
    ELSE IF k \in {"bulk_summary", "bulk_simple_best_ip"}
    THEN select_data(args.filepath, args.data)
    ELSE "ok"

\* the arguments each operation takes
ArgsOf(k) ==
    [category : IF k \in {"simple_best", "bulk_simple_best_ip"}
                THEN Categories ELSE {"none"},
     filepath : IF k \in {"bulk_summary", "bulk_simple_best_ip"}
                THEN FilePaths ELSE {"none"},
     data : IF k \in {"bulk_summary", "bulk_simple_best_ip"}
            THEN DataValues ELSE {"none"}]

\* the consumers of the validation specification
Validators == {1, 2}

\* first __anext__ on an operation that validates its arguments: ValueError
\* leaves the generator before the gate is looked up, else the gate is
\* entered
ValidatedStart(c) ==
    /\ calls[c].pc = "idle"
    /\ \A c2 \in Validators : c2 < c => calls[c2].pc # "idle"
    /\ \E k \in ValidatedKinds : \E a \in ArgsOf(k) :
          IF validate(k, a) = "ValueError"
          THEN /\ calls' = [calls EXCEPT ![c] =
                      [IdleCall EXCEPT !.pc = "done", !.kind = k, !.owner = "user",
                                       !.args = a, !.result = "ValueError"]]
               /\ UNCHANGED <<has_semaphores, semaphores>>
          ELSE /\ has_semaphores' = TRUE
               /\ LET ss == semaphores_get
                      g == semaphore_of(k)
                      base == [IdleCall EXCEPT !.kind = k, !.sem = g, !.owner = "user",
                                               !.page = 1, !.args = a]
                  IN IF ss[g].stub \/ ~Locked(ss[g])
                     THEN /\ calls' = [calls EXCEPT ![c] =
                                [base EXCEPT !.pc = "send", !.holds = TRUE,
                                             !.resp = "pending"]]
                          /\ semaphores' = IF ss[g].stub THEN ss
                                           ELSE [ss EXCEPT ![g].value = @ - 1]
                     ELSE /\ calls' = [calls EXCEPT ![c] = [base EXCEPT !.pc = "gate"]]
                          /\ semaphores' = [ss EXCEPT ![g].waiters = Append(@, c)]
    /\ UNCHANGED <<dec, enabled, rate_limits, walk>>

\* rate limiting disabled, or enabled with at most one of the validated
\* operations given a limit
InitValidate ==
    /\ \/ enabled = FALSE /\ rate_limits = <<>>
       \/ /\ enabled = TRUE
          /\ rate_limits \in {<<>>} \cup {[k \in {f} |-> n] :
                                 f \in ValidatedKinds, n \in 1..MaxLimit}
    /\ has_semaphores = FALSE
    /\ semaphores = [k \in Kinds |-> SemaphoreStub]
    /\ calls = [c \in Calls \cup PageCalls |-> IdleCall]
    /\ walk = IdleWalk
    /\ dec = IdleDec

NextValidate ==
    \E c \in Validators :
       \/ ValidatedStart(c)
       \/ Admit(c)
       \/ Respond(c)
       \/ ReadBody(c)
       \/ UserNext(c)

SpecValidate == InitValidate /\ [][NextValidate]_vars

\* ------------------------------------------- responses and their decoding

\* record values found in bodies
RecIds == {"a", "b"}

\* sequences over S of length at most n
SeqsUpTo(S, n) == UNION {[1..k -> S] : k \in 0..n}

\* Python values decoded from JSON: None, a list, a string, a number, a dict
JNull == [t |-> "null"]
JList == [t |-> "list"]
JStr == [t |-> "str"]
JNum == [t |-> "num"]
JObj(f) == [t |-> "obj", f |-> f]

\* bodies of an error answer: objects with or without the text and error
\* fields
ErrorObjects ==
    {JObj(<<>>), JObj([k \in {"text"} |-> "bad field"]),
     JObj([k \in {"error"} |-> 12]),
     JObj([text |-> "bad field", error |-> 12])}

\* bodies of an enveloped answer: objects with or without the results list
\* and the max_page field
EnvelopeObjects ==
    {JObj([k \in {"max_page"} |-> 2]), JObj([k \in {"count"} |-> 1])}
    \cup {JObj([results |-> r, max_page |-> 2]) : r \in SeqsUpTo(RecIds, MaxItems)}
    \cup {JObj([k \in {"results"} |-> r]) : r \in SeqsUpTo(RecIds, MaxItems)}

\* body texts given to response.json(): no byte at all, bytes that are not
\* text in the response's encoding, text that is not JSON, or a JSON text
JsonBodies ==
    {[k |-> "empty"], [k |-> "undecodable"], [k |-> "malformed"]}
    \cup {[k |-> "json", v |-> v] :
            v \in {JNull, JList, JStr, JNum} \cup ErrorObjects \cup EnvelopeObjects}

\* the JSON text of a record, token by token, and its truncations
ObjText(r) == <<"{", r, "}">>
LineTexts == {SubSeq(ObjText(r), 1, n) : r \in RecIds, n \in 0..3}

\* NDJSON bodies: terminated lines, then possibly a last line without its
\* terminator (never an empty one: that is the end of the stream)
Lines == [text : LineTexts, nl : {TRUE}]
LastLines == [text : LineTexts \ {<<>>}, nl : {FALSE}]
NdjsonBodies ==
    {ls : ls \in SeqsUpTo(Lines, MaxItems)}
    \cup {Append(ls, l) : ls \in SeqsUpTo(Lines, MaxItems - 1), l \in LastLines}

\* statuses of the responses handed to _handle_resp
DecStatuses == {200, 299, 300, 399, 400, 401, 428, 429, 430, 500}

ContentTypes == {"application/json", "text/html"}

\* variant: a truncated text is parsed up to where it stops
loads_Lenient(text) ==
    IF Len(text) >= 2 /\ text[1] = "{"
    THEN [exc |-> "none", value |-> text[2]]
    ELSE [exc |-> "JSONDecodeError", value |-> ""]

\* json.loads(line): the text of an object parses to its record, anything
\* else raises JSONDecodeError
loads(text) ==
    IF Len(text) = 3 /\ text[1] = "{" /\ text[3] = "}"
    THEN [exc |-> "none", value |-> text[2]]
    ELSE [exc |-> "JSONDecodeError", value |-> ""]

\* ClientResponse.json(): the content type is checked, an empty body gives
\* None, else the body is decoded and parsed
json(ctype, body) ==
    IF ctype # "application/json" THEN [exc |-> "ContentTypeError", value |-> JNull]
    ELSE IF body.k = "empty" THEN [exc |-> "none", value |-> JNull]
    ELSE IF body.k = "undecodable" THEN [exc |-> "UnicodeDecodeError", value |-> JNull]
    ELSE IF body.k = "malformed" THEN [exc |-> "JSONDecodeError", value |-> JNull]
    ELSE [exc |-> "none", value |-> body.v]

\* the exceptions _get_error_text catches
GetErrorTextCaught ==
    {"ClientResponseError", "ContentTypeError", "JSONDecodeError", "KeyError"}

\* _get_error_text: (body['text'], body['error']), or the fallback when one
\* of the caught exceptions is raised (KeyError for a missing field);
\* subscripting a value that is not a dict raises TypeError
get_error_text(ctype, body) ==
    LET j == json(ctype, body)
        missing == [exc |-> "none", text |-> "error text is missing", code |-> -1]
    IN IF j.exc # "none"
       THEN (IF j.exc \in GetErrorTextCaught THEN missing
             ELSE [exc |-> j.exc, text |-> "", code |-> 0])
       ELSE IF j.value.t # "obj" THEN [exc |-> "TypeError", text |-> "", code |-> 0]
       ELSE IF {"text", "error"} \subseteq DOMAIN j.value.f
       THEN [exc |-> "none", text |-> j.value.f.text, code |-> j.value.f.error]
       ELSE missing

\* the messages given to _api_error
MsgRateLimited == "rate limiting triggered!"
MsgBadRequest == "server refused to process your request: %s (err=%d)"
MsgUnexpected == "unexpected response from onyphe api (resp.status=%d)"

\* message % args, as the logger computes it
Format(message, args) ==
    IF message = MsgBadRequest
    THEN "server refused to process your request: " \o args[1]
         \o " (err=" \o ToString(args[2]) \o ")"
    ELSE IF message = MsgUnexpected
    THEN "unexpected response from onyphe api (resp.status="
         \o ToString(args[1]) \o ")"
    ELSE message

\* _api_error(message, *args): the formatted message is logged, the
\* exception is built from the message alone
api_error(message, args) ==
    [log |-> Format(message, args),
     raised |-> [type |-> "OnypheAPIError", message |-> message]]

\* an exception of a library or of the interpreter leaves the generator
Raise(type) == [type |-> type, message |-> ""]

\* variant: the results list stays in the metadata
meta_of_Keep(f) == JObj(f)

\* _parse_json_resp, the metadata: a copy of the object without 'results'
meta_of(f) == JObj([k \in (DOMAIN f) \ {"results"} |-> f[k]])

\* _parse_json_resp as a function of the response: the pairs it yields (in
\* order) and the exception that ends it, if any. dict.update raises on
\* None, on a number, on a list of values and on a string; del raises
\* KeyError on a missing 'results'
parse_json_resp_pairs(ctype, body) ==
    LET j == json(ctype, body)
    IN IF j.exc # "none" THEN [exc |-> j.exc, pairs |-> <<>>]
       ELSE IF j.value.t = "str" THEN [exc |-> "ValueError", pairs |-> <<>>]
       ELSE IF j.value.t # "obj" THEN [exc |-> "TypeError", pairs |-> <<>>]
       ELSE IF "results" \notin DOMAIN j.value.f
       THEN [exc |-> "KeyError", pairs |-> <<>>]
       ELSE [exc |-> "none",
             pairs |-> [i \in 1..Len(j.value.f.results) |->
                          <<meta_of(j.value.f), j.value.f.results[i]>>]]

\* variant: a blank line is taken for the end of the stream
line_is_empty_Blank(line) == line.text = <<>>

\* `if not line`: readline() returned no byte at all
line_is_empty(line) == line.text = <<>> /\ ~line.nl

\* variant: the rest of the body is read at once
lines_after_read_All(body, pos) == Len(body)

\* number of lines taken from the stream once readline() has returned
lines_after_read(body, pos) == pos + 1

\* answers with a status that _handle_resp refuses: their body, if read at
\* all, is read by _get_error_text
ErrorBodies ==
    {[k |-> "empty"], [k |-> "undecodable"], [k |-> "malformed"]}
    \cup {[k |-> "json", v |-> v] : v \in {JNull, JList, JStr, JNum} \cup ErrorObjects}

\* the responses handed to _handle_resp, with the decoder of the operation
DecResponses ==
    {[IdleDec EXCEPT !.pc = "start", !.decoder = d, !.status = s,
                     !.ctype = ct, !.body = b] :
        d \in {"json", "ndjson"},
        s \in {x \in DecStatuses : handle_resp_status(x) # "ok"},
        ct \in ContentTypes, b \in ErrorBodies}
    \cup {[IdleDec EXCEPT !.pc = "start", !.decoder = "json", !.status = s,
                          !.ctype = ct, !.body = b] :
        s \in {x \in DecStatuses : handle_resp_status(x) = "ok"},
        ct \in ContentTypes, b \in JsonBodies}
    \cup {[IdleDec EXCEPT !.pc = "start", !.decoder = "ndjson", !.status = s,
                          !.ctype = "application/json", !.body = b] :
        s \in {x \in DecStatuses : handle_resp_status(x) = "ok"},
        b \in NdjsonBodies}

\* _handle_resp up to the decoder: the status checks, each raising through
\* _api_error; for a 400 the body is read by _get_error_text first
HandleResp ==
    /\ dec.pc = "start"
    /\ LET verdict == handle_resp_status(dec.status)
           e == get_error_text(dec.ctype, dec.body)
           err == CASE verdict = "RateLimited" -> api_error(MsgRateLimited, <<>>)
                    [] verdict = "BadRequest" ->
                         api_error(MsgBadRequest, <<e.text, e.code>>)
                    [] OTHER -> api_error(MsgUnexpected, <<dec.status>>)
       IN IF verdict = "ok"
          THEN dec' = [dec EXCEPT !.pc = "decoding"]
          ELSE IF verdict = "BadRequest" /\ e.exc # "none"
          THEN dec' = [dec EXCEPT !.pc = "done", !.bodyRead = TRUE,
                                  !.raised = Raise(e.exc)]
          ELSE dec' = [dec EXCEPT !.pc = "done",
                                  !.bodyRead = ErrorBodyRead(verdict),
                                  !.raised = err.raised,
                                  !.log = Append(@, err.log)]
    /\ UNCHANGED <<enabled, rate_limits, has_semaphores, semaphores, calls, walk>>

\* _parse_json_resp up to its first yield: the body is read and parsed
ParseJsonResp ==
    /\ dec.pc = "decoding"
    /\ dec.decoder = "json"
    /\ LET r == parse_json_resp_pairs(dec.ctype, dec.body)
           fr == [dec EXCEPT !.bodyRead = TRUE]
       IN IF r.exc # "none"
          THEN dec' = [fr EXCEPT !.pc = "done", !.raised = Raise(r.exc)]
          ELSE IF r.pairs = <<>>
          THEN dec' = [fr EXCEPT !.pc = "done"]
          ELSE dec' = [fr EXCEPT !.pc = "yielded", !.out = <<r.pairs[1]>>]
    /\ UNCHANGED <<enabled, rate_limits, has_semaphores, semaphores, calls, walk>>

\* _parse_ndjson_resp, one turn of its loop: readline(), the test for the
\* end of the stream, loads() and the yield
ParseNdjsonResp ==
    /\ dec.pc = "decoding"
    /\ dec.decoder = "ndjson"
    /\ IF dec.pos >= Len(dec.body)
       THEN dec' = [dec EXCEPT !.pc = "done", !.bodyRead = TRUE]
       ELSE LET line == dec.body[dec.pos + 1]
                r == loads(line.text)
                fr == [dec EXCEPT !.bodyRead = TRUE,
                                  !.pos = lines_after_read(dec.body, dec.pos)]
            IN IF line_is_empty(line)
               THEN dec' = [fr EXCEPT !.pc = "done"]
               ELSE IF r.exc # "none"
               THEN dec' = [fr EXCEPT !.pc = "done", !.raised = Raise(r.exc)]
               ELSE dec' = [fr EXCEPT !.pc = "yielded",
                                      !.out = Append(@, <<JNull, r.value>>)]
    /\ UNCHANGED <<enabled, rate_limits, has_semaphores, semaphores, calls, walk>>

\* the consumer asks for the next pair: the enveloped decoder goes on with
\* its list, the NDJSON decoder goes back to readline()
Anext ==
    /\ dec.pc = "yielded"
    /\ IF dec.decoder = "json"
       THEN LET r == parse_json_resp_pairs(dec.ctype, dec.body)
            IN IF Len(dec.out) < Len(r.pairs)
               THEN dec' = [dec EXCEPT !.out = Append(@, r.pairs[Len(dec.out) + 1])]
               ELSE dec' = [dec EXCEPT !.pc = "done"]
       ELSE dec' = [dec EXCEPT !.pc = "decoding"]
    /\ UNCHANGED <<enabled, rate_limits, has_semaphores, semaphores, calls, walk>>

InitDecode ==
    /\ enabled = TRUE
    /\ rate_limits = <<>>
    /\ has_semaphores = FALSE
    /\ semaphores = [k \in Kinds |-> SemaphoreStub]
    /\ calls = [c \in Calls \cup PageCalls |-> IdleCall]
    /\ walk = IdleWalk
    /\ dec \in DecResponses

NextDecode ==
    \/ HandleResp
    \/ ParseJsonResp
    \/ ParseNdjsonResp
    \/ Anext

SpecDecode == InitDecode /\ [][NextDecode]_vars

\* ------------------------------------------------------------------ claims

HoldersOf(k) == {c \in DOMAIN calls : calls[c].kind = k /\ calls[c].holds}

WaitersOf(k) == {c \in DOMAIN calls : calls[c].kind = k /\ calls[c].pc = "gate"}

InFlight(c) == calls[c].resp \in {"pending", "open"}

\* the result sequence of call c is over for its consumer
Ended(c) == calls[c].pc \in {"closing", "done"}

\* C1: for a feature configured with a positive limit N, the number of calls
\* of that feature holding a permit at the same time never exceeds N
C1_Theorem ==
    \A k \in Kinds :
        LimitOf(k) # None => Cardinality(HoldersOf(k)) <= LimitOf(k)

\* all N permits of a feature are out and a further call waits at its gate
C1_Witness ==
    \E k \in Kinds :
        /\ LimitOf(k) # None
        /\ Cardinality(HoldersOf(k)) = LimitOf(k)
        /\ WaitersOf(k) # {}

\* C2: with the default configuration no two export calls hold a permit or
\* have a request in flight at the same time
C2_Claim ==
    (enabled /\ rate_limits = <<>>) =>
        Cardinality({c \in DOMAIN calls :
                        /\ calls[c].kind = "export"
                        /\ (calls[c].holds \/ InFlight(c))}) <= 1

\* C3: no call ever waits at the gate of a feature whose limit is unset, nor
\* at any gate when rate limiting is disabled
C3_Theorem ==
    \A c \in DOMAIN calls :
        calls[c].pc = "gate" => (enabled /\ LimitOf(calls[c].kind) # None)

\* rate limiting disabled: two export calls are inside the gate together
C3_Witness ==
    /\ ~enabled
    /\ Cardinality(HoldersOf("export")) >= 2

\* C4: gates of different features never contend: a step changes the gate of
\* feature k only if it is a step of a call of feature k, and a call that
\* starts is made to wait only when the gate of its own feature is locked
C4_Theorem ==
    [][ /\ \A k \in Kinds :
              semaphores_get'[k] # semaphores_get[k] =>
                  \E c \in DOMAIN calls :
                      calls'[c] # calls[c] /\ calls'[c].kind = k
        /\ \A c \in DOMAIN calls :
              (calls[c].pc = "idle" /\ calls'[c].pc = "gate") =>
                  Locked(semaphores_get[calls'[c].kind]) ]_vars

\* both features are limited, the export limit is exhausted and a search
\* call holds a permit of its own
C4_Witness ==
    /\ LimitOf("search") # None
    /\ LimitOf("export") # None
    /\ Cardinality(HoldersOf("export")) = LimitOf("export")
    /\ HoldersOf("search") # {}

\* C5: a permit is given back exactly once when a result sequence ends: for a
\* feature with limit N the free permits plus the calls inside the gate always
\* make N, no ended call is still inside, so N permits are free again once
\* all its calls have ended
C5_Theorem ==
    /\ \A c \in DOMAIN calls : Ended(c) => ~calls[c].holds
    /\ \A k \in Kinds :
          LimitOf(k) # None =>
              semaphores_get[k].value + Cardinality(HoldersOf(k)) = LimitOf(k)

\* two calls of a limited feature have ended, one by a decode failure and one
\* by a transport failure, and all permits are free
C5_Witness ==
    \E k \in Kinds, c1, c2 \in DOMAIN calls :
        /\ LimitOf(k) # None
        /\ calls[c1].kind = k /\ calls[c2].kind = k
        /\ calls[c1].pc = "done" /\ calls[c1].result = "DecodeError"
        /\ calls[c2].pc = "done"
        /\ calls[c2].result \in {"TransportError", "ProxyUnreachable"}
        /\ semaphores[k].value = LimitOf(k)

C10_Theorem ==
    \A c \in DOMAIN calls :
        calls[c].status = 429 =>
            /\ calls[c].pc = "done"
            /\ calls[c].result = "RateLimited"
            /\ ~calls[c].bodyRead
            /\ calls[c].nyield = 0

\* a call was answered with status 429
C10_Witness ==
    \E c \in DOMAIN calls : calls[c].status = 429 /\ calls[c].result = "RateLimited"

\* ------------------------------------------------- claims on the page walker

\* number of pages requested so far
NFetched == IF walk.pc \in {"idle", "created"} THEN 0 ELSE walk.slot - NCalls

\* the page numbers requested so far, in request order
Fetched == [i \in 1..NFetched |-> calls[PageSlot(i)].page]

\* the max_page values read so far from the pairs of the walk
ObservedMaxPages == {max_page_of(walk.out[i][3]) : i \in 1..Len(walk.out)}

SetMin(S) == CHOOSE x \in S : \A y \in S : x <= y

\* the pairs the requested pages have yielded, page after page
RECURSIVE PairsUpTo(_)
PairsUpTo(n) ==
    IF n = 0 THEN <<>>
    ELSE PairsUpTo(n - 1) \o
         [j \in 1..calls[PageSlot(n)].nyield |-> <<calls[PageSlot(n)].page, j>>]

WalkOutPairs == [i \in 1..Len(walk.out) |-> <<walk.out[i][1], walk.out[i][2]>>]

\* C7: only the call of the page being fetched may hold a permit, and the
\* walk holds none when a page has ended: the permit of page p is given back
\* before the permit of page p+1 is asked for
C7_Theorem ==
    /\ Cardinality({c \in PageCalls : calls[c].holds}) <= 1
    /\ \A c \in PageCalls : calls[c].holds => c = walk.slot
    /\ \A c \in PageCalls : calls[c].pc = "done" => ~calls[c].holds

\* limit 1: page 1 has ended, the competing search call holds the permit and
\* the call for page 2 waits at the gate
C7_Witness ==
    /\ LimitOf("search") = 1
    /\ calls[PageSlot(1)].result = "exhausted"
    /\ calls[PageSlot(2)].pc = "gate"
    /\ \E c \in Competitors : calls[c].holds

\* the bounds on the last page seen so far: the max_page values read and the
\* caller bound, if one was given (0 counts as none, as for `if last:`)
BoundsSeen ==
    ObservedMaxPages \cup (IF walk.bound \notin {None, 0} THEN {walk.bound} ELSE {})

\* C8: a walk whose pages were all served ends normally, having requested
\* exactly the pages first..last, last being the minimum of the max_page
\* values observed and of the caller bound if one was given, and having
\* re-yielded all their pairs unchanged and in order
C8_Claim ==
    (walk.pc = "done" /\ walk.result \in {"exhausted", "TypeError"}) =>
        /\ walk.result = "exhausted"
        /\ BoundsSeen # {} =>
              Fetched = [i \in 1..(SetMin(BoundsSeen) - walk.first + 1) |->
                            walk.first + i - 1]
        /\ WalkOutPairs = PairsUpTo(NFetched)

\* C9 as stated: a bounded last never increases, and no page is requested
\* above the smallest bound seen so far from the server or the caller
C9_Claim ==
    [][ /\ walk.last \notin {None, 0} =>
              (walk'.last # None /\ walk'.last <= walk.last)
        /\ NFetched' > NFetched =>
              \A b \in BoundsSeen : walk'.current <= b ]_vars

\* C9 amended: once last holds a non-zero value it never increases, and after
\* page first, which is always requested, no page is requested above the
\* smallest bound seen so far from the server or from a non-zero caller bound
C9_Theorem ==
    [][ /\ walk.last \notin {None, 0} =>
              (walk'.last # None /\ walk'.last <= walk.last)
        /\ (NFetched >= 1 /\ NFetched' > NFetched) =>
              \A b \in BoundsSeen : walk'.current <= b ]_vars

\* caller bound 3, page 1 reports max_page 3 and page 2 reports max_page 2:
\* the walk has ended after page 2
C9_Witness ==
    /\ walk.pc = "done"
    /\ walk.result = "exhausted"
    /\ walk.first = 1
    /\ walk.bound = 3
    /\ NFetched = 2
    /\ Len(walk.out) = 2
    /\ walk.out[1][3] = 3
    /\ walk.out[2][3] = 2

\* results of a call that ended with a failure of the request or of the
\* response
Failures ==
    {"ProxyUnreachable", "TransportError", "RateLimited", "BadRequest",
     "UnexpectedStatus", "DecodeError"}

\* C13: a call issues its request once and never goes back to it; a call
\* ends as exhausted only after a successful status and a body read; when a
\* page of a walk fails the walk ends with that failure, every pair yielded
\* by the pages requested has been delivered, each page was requested once
\* and no page is requested afterwards
C13_Theorem ==
    /\ [](\A c \in DOMAIN calls :
            calls[c].result = "exhausted" =>
                (handle_resp_status(calls[c].status) = "ok" /\ calls[c].bodyRead))
    /\ []((walk.pc = "done" /\ walk.result \in Failures) =>
            /\ walk.result = calls[walk.slot].result
            /\ Fetched = [i \in 1..NFetched |-> walk.first + i - 1]
            /\ WalkOutPairs = PairsUpTo(NFetched)
            /\ \A c \in PageCalls : c > walk.slot => calls[c].pc = "idle")
    /\ [][ /\ \A c \in DOMAIN calls :
               /\ (calls'[c].pc = "send" /\ calls[c].pc # "send") =>
                      calls[c].pc \in {"idle", "gate"}
               /\ calls[c].pc \notin {"idle", "gate"} =>
                      calls'[c].pc \notin {"idle", "gate"}
               /\ calls[c].result \in Failures => calls'[c] = calls[c]
           /\ (walk.pc = "pulling" /\ calls[walk.slot].result \in Failures) =>
                  (walk'.pc = "done" /\ walk'.result = calls[walk.slot].result
                   /\ calls' = calls)
           /\ walk.pc = "done" => (walk' = walk /\ \A c \in PageCalls : calls'[c] = calls[c])
         ]_vars

\* page 1 delivered a pair, page 2 failed and the walk has ended with the
\* failure of page 2
C13_Witness ==
    /\ walk.pc = "done"
    /\ walk.result \in Failures
    /\ NFetched = 2
    /\ Len(walk.out) >= 1
    /\ calls[PageSlot(1)].result = "exhausted"
    /\ calls[PageSlot(2)].result = walk.result

\* ------------------------------------------- claims on the response handler

\* the text and the code a 400 answer gives: the fields of the body when it
\* is a JSON object holding both, else the fallback
ExpectedErrorText ==
    IF /\ dec.ctype = "application/json"
       /\ dec.body.k = "json"
       /\ dec.body.v.t = "obj"
       /\ {"text", "error"} \subseteq DOMAIN dec.body.v.f
    THEN <<dec.body.v.f.text, dec.body.v.f.error>>
    ELSE <<"error text is missing", -1>>

\* C11: a 400 answer always ends the call with the bad-request API error
\* carrying the text and the code of the body, or the fallback text and -1
\* when the body does not parse to an object holding both; no other error is
\* raised and no record is yielded
C11_Claim ==
    (dec.pc = "done" /\ dec.status = 400) =>
        /\ dec.raised = [type |-> "OnypheAPIError",
                         message |-> Format(MsgBadRequest, ExpectedErrorText)]
        /\ dec.out = <<>>

\* C12: every status >= 300 other than 429 and 400 ends the call with the
\* unexpected-status API error carrying that status, before any body read;
\* only a status below 300 reaches the decoder and no record is yielded from
\* an answer whose status is >= 300
C12_Claim ==
    /\ dec.status >= 300 =>
          /\ dec.pc \in {"start", "done"}
          /\ dec.out = <<>>
    /\ (dec.status >= 300 /\ dec.status \notin {400, 429} /\ dec.pc = "done") =>
          /\ ~dec.bodyRead
          /\ dec.raised = [type |-> "OnypheAPIError",
                           message |-> Format(MsgUnexpected, <<dec.status>>)]
    /\ dec.pc \in {"decoding", "yielded"} => dec.status < 300

\* the answer is a well-formed envelope: success status, JSON content type,
\* a JSON object holding a results list
IsEnvelope ==
    /\ dec.decoder = "json"
    /\ dec.status < 300
    /\ dec.ctype = "application/json"
    /\ dec.body.k = "json"
    /\ dec.body.v.t = "obj"
    /\ "results" \in DOMAIN dec.body.v.f

\* C14: from an envelope with the records r1..rk the decoder yields the
\* pairs (metadata, r1), ..., (metadata, rk) in that order and nothing else,
\* the metadata being the object without its results key, the same in every
\* pair; it ends normally after the k-th pair, at once when k = 0
C14_Theorem ==
    IsEnvelope =>
        LET f == dec.body.v.f
            metadata == JObj([k \in (DOMAIN f) \ {"results"} |-> f[k]])
        IN /\ Len(dec.out) <= Len(f.results)
           /\ \A i \in 1..Len(dec.out) : dec.out[i] = <<metadata, f.results[i]>>
           /\ dec.pc = "done" =>
                 (dec.raised = NoExc /\ Len(dec.out) = Len(f.results))
           /\ dec.pc = "yielded" => Len(dec.out) >= 1

\* an envelope with a max_page field and three records, not all the same,
\* has been decoded to its end
C14_Witness ==
    /\ IsEnvelope
    /\ dec.pc = "done"
    /\ "max_page" \in DOMAIN dec.body.v.f
    /\ Len(dec.out) = 3
    /\ dec.out[1][2] # dec.out[2][2]

\* the answer is an NDJSON stream that reached the decoder
IsStream == dec.decoder = "ndjson" /\ dec.status < 300

\* the text is the whole text of a record
Complete(text) == \E r \in RecIds : text = ObjText(r)

\* every terminated line of the body holds a record
ValidLines == \A i \in 1..Len(dec.body) : dec.body[i].nl => Complete(dec.body[i].text)

\* the body ends with a line cut before its end
EndsTruncated ==
    /\ Len(dec.body) >= 1
    /\ ~dec.body[Len(dec.body)].nl
    /\ ~Complete(dec.body[Len(dec.body)].text)

\* C15: from a stream of k valid lines the decoder yields the k pairs
\* (None, record) in line order, each after its line was read, and then
\* ends at the end of the stream; a last line cut before its end gives a
\* decode failure after the k pairs and never a record
C15_Theorem ==
    (IsStream /\ ValidLines) =>
        /\ Len(dec.out) <= dec.pos
        /\ \A i \in 1..Len(dec.out) :
              /\ Complete(dec.body[i].text)
              /\ dec.out[i] = <<JNull, dec.body[i].text[2]>>
        /\ (dec.pc = "done" /\ ~EndsTruncated) =>
              (dec.raised = NoExc /\ Len(dec.out) = Len(dec.body))
        /\ (dec.pc = "done" /\ EndsTruncated) =>
              (dec.raised.type = "JSONDecodeError"
               /\ Len(dec.out) = Len(dec.body) - 1)

\* two valid lines were decoded and the cut line after them has ended the
\* stream with a decode failure
C15_Witness ==
    /\ IsStream
    /\ ValidLines
    /\ EndsTruncated
    /\ Len(dec.body) = 3
    /\ dec.pc = "done"
    /\ Len(dec.out) = 2
    /\ dec.out[1] # dec.out[2]

\* the lines of the body that do not hold a record: malformed ones, and
\* those that are empty apart from their terminator
BadLines == {i \in 1..Len(dec.body) : ~Complete(dec.body[i].text)}

\* C16: every line read is parsed on its own and the stream ends normally
\* only at an empty read: with line j the first malformed line, the sequence
\* fails with a decode failure once the records of lines 1..j-1 have been
\* yielded and yields nothing from the lines after j; a line that is empty
\* apart from its terminator is not taken for the end of the stream
C16_Theorem ==
    IsStream =>
        /\ \A i \in 1..Len(dec.out) :
              /\ \A j \in BadLines : i < j
              /\ dec.out[i] = <<JNull, dec.body[i].text[2]>>
        /\ (dec.pc = "done" /\ BadLines = {}) =>
              (dec.raised = NoExc /\ Len(dec.out) = Len(dec.body)
               /\ dec.pos = Len(dec.body))
        /\ (dec.pc = "done" /\ BadLines # {}) =>
              LET j == SetMin(BadLines)
              IN /\ dec.raised.type = "JSONDecodeError"
                 /\ Len(dec.out) = j - 1
                 /\ dec.pos = j

\* a record, then a line that is empty apart from its terminator, then a
\* record: the sequence has failed after the first record
C16_Witness ==
    /\ IsStream
    /\ Len(dec.body) = 3
    /\ Complete(dec.body[1].text)
    /\ dec.body[2] = [text |-> <<>>, nl |-> TRUE]
    /\ Complete(dec.body[3].text)
    /\ dec.pc = "done"
    /\ dec.raised.type = "JSONDecodeError"
    /\ Len(dec.out) = 1

\* C17: a line is read only when the consumer has asked for the next
\* record: the lines read exceed the records delivered by one at most, and
\* by none while the consumer holds a record
C17_Theorem ==
    IsStream =>
        /\ dec.pos <= Len(dec.out) + 1
        /\ dec.pc = "yielded" => dec.pos = Len(dec.out)
        /\ dec.pos <= Len(dec.body)

\* the consumer holds the second record of a stream of three lines: two
\* lines have been read, the third has not
C17_Witness ==
    /\ IsStream
    /\ Len(dec.body) = 3
    /\ dec.pc = "yielded"
    /\ Len(dec.out) = 2
    /\ dec.pos = 2

\* the body of an answer decoded as an envelope is not valid JSON, or is
\* JSON without a results field
BadEnvelope ==
    /\ dec.decoder = "json"
    /\ dec.status < 300
    /\ \/ dec.body.k = "malformed"
       \/ /\ dec.body.k = "json"
          /\ dec.body.v.t = "obj"
          /\ "results" \notin DOMAIN dec.body.v.f

\* C18: an answer with a success status whose body is not valid JSON or has
\* no results field ends the call with an API error (OnypheAPIError, the
\* type the top-level boundary catches) and yields no record
C18_Claim ==
    (BadEnvelope /\ dec.pc = "done") =>
        (dec.raised.type = "OnypheAPIError" /\ dec.out = <<>>)

\* ------------------------------------------------- claims on validation

\* the call was made with a category outside the allow-list, or is a bulk
\* call made with neither a file path nor data
BadArgs(c) ==
    \/ /\ calls[c].kind \in {"simple_best", "bulk_simple_best_ip"}
       /\ calls[c].args.category \notin {"whois", "geoloc", "inetnum", "threatlist"}
    \/ /\ calls[c].kind \in {"bulk_summary", "bulk_simple_best_ip"}
       /\ calls[c].args.filepath = "none"
       /\ calls[c].args.data = "none"

\* C19: a call with a category outside the allow-list, or a bulk call with
\* neither file path nor data, ends with ValueError; a call that ended with
\* ValueError never entered a gate, took no permit and sent no request, and
\* the step that raised it left the gates as they were
C19_Theorem ==
    /\ [](\A c \in Validators : BadArgs(c) => calls[c].result = "ValueError")
    /\ [](\A c \in Validators :
            calls[c].result = "ValueError" =>
                /\ calls[c].pc = "done"
                /\ calls[c].sem = "none"
                /\ ~calls[c].holds
                /\ calls[c].resp = "none")
    /\ [][\A c \in Validators :
            (calls[c].result # "ValueError" /\ calls'[c].result = "ValueError") =>
                (semaphores' = semaphores /\ has_semaphores' = has_semaphores)]_vars

\* the simple_best gate has limit 1 and its permit is held by a call; a
\* second simple_best call, made with the datascan category, has ended with
\* ValueError and the permit is still out
C19_Witness ==
    /\ LimitOf("simple_best") = 1
    /\ calls[1].kind = "simple_best"
    /\ calls[1].holds
    /\ calls[2].kind = "simple_best"
    /\ calls[2].args.category = "datascan"
    /\ calls[2].result = "ValueError"
    /\ semaphores["simple_best"].value = 0

\* ---------------------------------------------------- claims on the gate map

\* C20: once the gate map exists it has one entry per kind, a stub unless
\* rate limiting is enabled and the defaults merged with the configured
\* limits give the kind a limit N, then a semaphore whose free permits plus
\* holders make N; an access returns the stored map, and no step replaces a
\* gate or changes the sum of its free and outstanding permits
C20_Theorem ==
    /\ [](has_semaphores =>
            /\ DOMAIN semaphores = Kinds
            /\ semaphores_get = semaphores
            /\ \A k \in Kinds :
                  /\ semaphores[k].stub <=>
                         (~enabled \/ (IF k \in DOMAIN rate_limits THEN rate_limits[k]
                                        ELSE DEFAULT_RATE_LIMITS[k]) = None)
                  /\ ~semaphores[k].stub =>
                         semaphores[k].value + Cardinality(HoldersOf(k))
                            = (IF k \in DOMAIN rate_limits THEN rate_limits[k]
                               ELSE DEFAULT_RATE_LIMITS[k]))
    /\ [][has_semaphores =>
            /\ has_semaphores'
            /\ \A k \in Kinds :
                  /\ semaphores'[k].stub = semaphores[k].stub
                  /\ ~semaphores[k].stub =>
                        semaphores'[k].value + Cardinality(HoldersOf(k)')
                           = semaphores[k].value + Cardinality(HoldersOf(k))]_vars

\* the export gate was built with its default limit, its permit is out, and
\* a later call has looked the map up again and waits at the same gate
C20_Witness ==
    /\ has_semaphores
    /\ ~semaphores["export"].stub
    /\ semaphores["export"].value = 0
    /\ \E c1, c2 \in Calls :
          /\ calls[c1].kind = "export" /\ calls[c1].holds
          /\ calls[c2].kind = "export" /\ calls[c2].pc = "gate"
          /\ semaphores["export"].waiters = <<c2>>

\* -------------------------------------------- claims on the order of the steps

\* C21: the request of a call is sent only while the call holds its permit,
\* a response that is still open belongs to a call that still holds its
\* permit (the response is closed before the permit is released, on every
\* exit path), and a feature with limit N has at most N open responses
C21_Claim ==
    /\ \A c \in DOMAIN calls :
          /\ calls[c].pc = "send" => calls[c].holds
          /\ InFlight(c) => calls[c].holds
    /\ \A k \in Kinds :
          (enabled /\ LimitOf(k) # None) =>
              Cardinality({c \in DOMAIN calls :
                              calls[c].kind = k /\ InFlight(c)}) <= LimitOf(k)

\* -------------------------------------------------- claims on admission

Progress(g) ==
    \E c \in Tasks :
       /\ calls[c].sem = g
       /\ \/ Admit(c)
          \/ /\ calls[c].holds
             /\ \/ Respond(c)
                \/ ReadBody(c)
                \/ NestedNext(c)
                \/ NestedClose(c)
                \/ c = Outer /\ NestedDrop
                \/ FinalizeOuter(c)

\* C23: whenever a call waits at a gate, a step is enabled that takes a free
\* permit of that gate or moves a holder of one of its permits towards the
\* end of its sequence, also when the consumer of a call of a limited kind
\* starts and awaits a call of the same kind between two records of the first
C23_Claim ==
    \A c \in Tasks :
        calls[c].pc = "gate" => ENABLED Progress(calls[c].sem)

\* --------------------------------------------- claims on several clients

\* C24: when two clients built with default rate limiting share one HTTP
\* session, the calls of a kind with limit N that hold a permit, of either
\* client, are never more than N
C24_Claim ==
    \A k \in Kinds :
        LimitOf(k) # None =>
            Cardinality({c \in Calls :
                            /\ calls[c].kind = k
                            /\ calls[c].holds
                            /\ calls[c].sem \in {semaphore_of(k), PeerGate(k)}})
                <= LimitOf(k)

\* ------------------------------------- claims on the ends of a page walk

\* C25: a walk over an operation whose pairs carry no max_page ends normally
\* after the page being fetched and requests no further page: once a pair
\* without max_page has been read no page above its page is requested, and a
\* walk over an operation with the error envelope decoder, whose pairs have
\* no metadata, does not end with an error of iter_pages and ends normally
\* once its page has given its pair
C25_Claim ==
    /\ \A i \in 1..Len(walk.out) :
          walk.out[i][3] = Absent =>
              /\ \A c \in PageCalls :
                    calls[c].pc # "idle" => calls[c].page <= walk.out[i][1]
              /\ walk.pc = "done" => walk.result = "exhausted"
    /\ Decoder(walk.afunc) = "error" =>
          /\ walk.result \in {"none", "exhausted"} \cup Failures
          /\ (walk.pc = "done" /\ calls[PageSlot(1)].nyield > 0) =>
                (walk.result = "exhausted" /\ NFetched = 1)

\* C26: when a page's result stream is exhausted and iter_pages compares
\* current with last, last is an integer, also when the page has yielded no
\* record and the caller gave no bound or a bound of 0, and the walk never
\* ends with the error of that comparison
C26_Claim ==
    /\ (/\ walk.pc = "pulling"
        /\ calls[walk.slot].pc = "done"
        /\ calls[walk.slot].result = "exhausted") => walk.last # None
    /\ walk.result # "TypeError"

\* a caller bound, or the max_page read from the first pair of page first,
\* is below first (a missing max_page counts as 1)
BoundBelowFirst(bounds) ==
    \/ walk.bound \in bounds /\ walk.bound < walk.first
    \/ /\ Len(walk.out) >= 1
       /\ walk.out[1][1] = walk.first
       /\ max_page_of(walk.out[1][3]) < walk.first

\* what C27 says of a walk whose caller bounds in the set bounds count as
\* bounds: page first is the first page requested and is requested once, and
\* with a bound below first no other page is requested and the pairs of page
\* first are re-yielded
OnlyFirst(bounds) ==
    walk.pc \notin {"idle", "created"} =>
        /\ NFetched >= 1
        /\ \A i \in 1..NFetched : (Fetched[i] = walk.first) <=> (i = 1)
        /\ BoundBelowFirst(bounds) =>
              /\ NFetched = 1
              /\ walk.pc = "done" =>
                    (walk.result = calls[PageSlot(1)].result
                     /\ WalkOutPairs = PairsUpTo(1))

\* C27 as stated: page first is requested exactly once whatever the bounds,
\* and when the caller bound, 0 included, or the first reported max_page is
\* smaller than first, only page first is requested and its pairs are yielded
C27_Claim == OnlyFirst(0..MaxPage)

\* C27 amended: the same for a caller bound of at least 1; a caller bound of
\* 0 counts as no bound
C27_Theorem == OnlyFirst(1..MaxPage)

\* first is 2, the caller bound is 1 and page 2 reports max_page 3: the walk
\* has ended after page 2, whose pair it has yielded
C27_Witness ==
    /\ walk.pc = "done"
    /\ walk.result = "exhausted"
    /\ walk.first = 2
    /\ walk.bound = 1
    /\ NFetched = 1
    /\ Len(walk.out) = 1
    /\ walk.out[1][3] = 3

\* ----------------------------------------- claims on consumers that stop

\* C28: the permit held by a call of a limited kind is eventually given
\* back, also when its consumer has taken some records and asks for no
\* further one, without cancelling
C28_Claim ==
    \A c \in Calls :
        (calls[c].holds /\ calls[c].pc = "yielded" /\ LimitOf(calls[c].kind) # None)
            ~> ~calls[c].holds

====
